---- MODULE Spec2Model ----
(***************************************************************************)
(* Model of MoneyTrackerApp.py: the ledger, the goal store, the allowance  *)
(* row and the report settings row of DatabaseManager, and the handlers of *)
(* MoneyTrackerApp that change them.                                       *)
(*                                                                         *)
(* Money: transaction amounts, targets and initial funding are whole       *)
(* numbers of the smallest currency unit the dialogs accept.  A goal's     *)
(* saved amount is held in 1/Scale of that unit, so that                   *)
(* income * (allocation / 100) is the exact integer income * allocation.   *)
(* Binary floating point rounding of the REAL columns is not modelled.     *)
(*                                                                         *)
(* Month-stamps ("YYYY-MM") are month numbers 1, 2, ...; NoMonth is the    *)
(* NULL stamp.  Names are sequences of characters so that str.strip() is   *)
(* modelled by what it does.  The settings row keeps what the handlers     *)
(* read: whether sender, password and recipient are all set (configured),  *)
(* auto_email and last_email_sent.                                         *)
(*                                                                         *)
(* Every behaviour is a sequence of at most MaxSteps operations on a new   *)
(* database; a cancelled dialog changes nothing and is no step.            *)
(*                                                                         *)
(* Spec is the application on a new database with a storage that works.    *)
(* SpecFaulty adds handlers left by a storage exception, SpecLegacy starts  *)
(* from a database of an earlier version rebuilt by _migrate_database,     *)
(* SpecLive lets the user start the application again and again.           *)
(***************************************************************************)
EXTENDS Integers, Sequences, FiniteSets, TLC

\* ---------------------------------------------------------------- bounds
MaxSteps == 4       \* operations performed since installation

\* ------------------------------------------------------ program constants
Percent == 100      \* income * (goal.allocation / 100)
MaxAllocation == 100 \* if total_allocation > 100
NoMonth == 0        \* NULL last_applied / last_email_sent
Scale == Percent    \* saved is held in 1/Scale of the currency unit

\* ------------------------------------------------------------ input sets
Months == 1..(MaxSteps + 1)
Ids == 1..MaxSteps
Incomes == {1, 3}
Expenses == {1}
AllowanceAmounts == {0, 2}
Targets == {2}
Allocations == {30, 70}
InitialAmounts == {0, 1, 2}
Deadlines == {[year |-> 2026, month |-> 6, day |-> 1]}
NameInputs == {<<" ">>, <<"L">>, <<" ", "L", " ">>}

VARIABLES
    transactions,   \* table transactions, in rowid order
    goals,          \* table goals, in rowid order
    nextGoalId,     \* AUTOINCREMENT sequence of table goals
    allowance,      \* table allowance: the row id = 1, or no row
    settings,       \* table app_settings: the row id = 1
    now,            \* the month datetime.now() is in
    steps,          \* operations performed since installation
    hist,           \* the last operation: its inputs, what it showed, what
                    \* its report read, whether it is a start right after
                    \* a start
    obs             \* what the user has observed since installation: the
                    \* allowance passes per month, the completion messages
                    \* per goal, the income credited to each goal, the
                    \* months in which a report was sent by hand

vars == <<transactions, goals, nextGoalId, allowance, settings, now, steps, hist, obs>>

\* ------------------------------------------------------------- helpers
RECURSIVE SumAmounts(_)
SumAmounts(txs) ==
    IF txs = << >> THEN 0 ELSE Head(txs).amount + SumAmounts(Tail(txs))

RECURSIVE SumAllocation(_)
SumAllocation(gs) ==
    IF gs = << >> THEN 0 ELSE Head(gs).allocation + SumAllocation(Tail(gs))

RECURSIVE LStrip(_)
LStrip(s) == IF s # << >> /\ Head(s) = " " THEN LStrip(Tail(s)) ELSE s

RECURSIVE RStrip(_)
RStrip(s) ==
    IF s # << >> /\ s[Len(s)] = " " THEN RStrip(SubSeq(s, 1, Len(s) - 1)) ELSE s

Strip(s) == RStrip(LStrip(s))

\* QDate.toString("yyyy-MM-dd")
TwoDigits(n) == IF n < 10 THEN "0" \o ToString(n) ELSE ToString(n)

FormatDate(d) ==
    ToString(d.year) \o "-" \o TwoDigits(d.month) \o "-" \o TwoDigits(d.day)

GoalIds(gs) == {gs[i].id : i \in 1..Len(gs)}

\* ------------------------------------------------------ DatabaseManager
\* mutant: the row replaces the last one (INSERT OR REPLACE on a fixed id)
add_transaction_replace(txs, amount, note, month) ==
    IF txs = << >>
    THEN << [amount |-> amount, month |-> month, note |-> note] >>
    ELSE [txs EXCEPT ![Len(txs)] =
              [amount |-> amount, month |-> month, note |-> note]]

add_transaction(txs, amount, note, month) ==
    Append(txs, [amount |-> amount, month |-> month, note |-> note])

get_balance(txs) == SumAmounts(txs)

add_goal(gs, goal, id) ==
    Append(gs, [id |-> id, name |-> goal.name, target |-> goal.target,
                saved |-> goal.saved, allocation |-> goal.allocation,
                deadline |-> goal.deadline, notified |-> FALSE])

\* mutant: SET saved = ? instead of SET saved = saved + ?
update_goal_saved_set(gs, id, amount) ==
    [i \in 1..Len(gs) |->
        IF gs[i].id = id THEN [gs[i] EXCEPT !.saved = amount] ELSE gs[i]]

update_goal_saved(gs, id, amount) ==
    [i \in 1..Len(gs) |->
        IF gs[i].id = id THEN [gs[i] EXCEPT !.saved = @ + amount] ELSE gs[i]]

mark_goal_notified(gs, id) ==
    [i \in 1..Len(gs) |->
        IF gs[i].id = id THEN [gs[i] EXCEPT !.notified = TRUE] ELSE gs[i]]

delete_goal(gs, id) == SelectSeq(gs, LAMBDA g : g.id # id)

NoAllowanceRow == [present |-> FALSE, amount |-> 0, last_applied |-> NoMonth]

get_allowance(al) == al

set_allowance(al, amount) ==
    [present |-> TRUE, amount |-> amount, last_applied |-> NoMonth]

update_allowance_applied(al, month) ==
    IF al.present THEN [al EXCEPT !.last_applied = month] ELSE al

save_settings(st, s) ==
    [st EXCEPT !.configured = s.configured, !.auto_email = s.auto_email]

get_last_email_sent(st) == st.last_email_sent

update_email_sent(st, month) == [st EXCEPT !.last_email_sent = month]


RECURSIVE SumWhere(_, _, _)
SumWhere(txs, month, sign) ==
    IF txs = << >> THEN 0
    ELSE (IF Head(txs).month = month /\ Head(txs).amount * sign > 0
          THEN Head(txs).amount ELSE 0) + SumWhere(Tail(txs), month, sign)

\* (income, expense) of the month: the positive and the negative amounts
get_monthly_summary(txs, month) ==
    [income |-> SumWhere(txs, month, 1), expense |-> SumWhere(txs, month, -1)]

\* ------------------------------------------------------ MoneyTrackerApp
\* mutant: the percentage divided as integers, allocation // 100
allocation_amount_floor(income, allocation) ==
    income * (allocation \div Percent) * Scale

\* income * (goal.allocation / 100), in 1/Scale units
allocation_amount(income, allocation) ==
    (income * allocation * Scale) \div Percent

RECURSIVE AllocateLoop(_, _, _)
AllocateLoop(snapshot, gs, income) ==
    IF snapshot = << >> THEN gs
    ELSE AllocateLoop(Tail(snapshot),
                      update_goal_saved(gs, Head(snapshot).id,
                          allocation_amount(income, Head(snapshot).allocation)),
                      income)

allocate_to_goals(gs, income) == AllocateLoop(gs, gs, income)

\* mutant: saved > target instead of saved >= target
ShouldNotify_strict(g) == g.saved > g.target * Scale /\ ~g.notified

\* mutant: every goal not yet notified is reported
ShouldNotify_any(g) == ~g.notified

\* goal.saved >= goal.target and not goal.notified
ShouldNotify(g) == g.saved >= g.target * Scale /\ ~g.notified

RECURSIVE NotifyLoop(_, _)
NotifyLoop(snapshot, gs) ==
    IF snapshot = << >> THEN gs
    ELSE NotifyLoop(Tail(snapshot),
                    IF ShouldNotify(Head(snapshot))
                    THEN mark_goal_notified(gs, Head(snapshot).id)
                    ELSE gs)

\* mutant: the loop shows the message and does not mark the goal
check_goal_notifications_unmarked(gs) == gs

\* the goal store after check_goal_notifications
check_goal_notifications(gs) == NotifyLoop(gs, gs)

\* the goals check_goal_notifications shows a "Goal Achieved" message for
Messages(gs) == {gs[i].id : i \in {j \in 1..Len(gs) : ShouldNotify(gs[j])}}

\* amount and amount > 0 and last_applied != current_month
AllowanceDue(al, month) ==
    /\ get_allowance(al).present
    /\ get_allowance(al).amount > 0
    /\ get_allowance(al).last_applied # month

\* mutant: update_allowance_applied is not called
apply_monthly_allowance_unstamped(txs, gs, al, month) ==
    IF AllowanceDue(al, month)
    THEN [transactions |-> add_transaction(txs, al.amount, "Monthly Allowance", month),
          allowance    |-> al,
          goals        |-> allocate_to_goals(gs, al.amount),
          applied      |-> TRUE]
    ELSE [transactions |-> txs, allowance |-> al, goals |-> gs, applied |-> FALSE]

apply_monthly_allowance(txs, gs, al, month) ==
    IF AllowanceDue(al, month)
    THEN [transactions |-> add_transaction(txs, al.amount, "Monthly Allowance", month),
          allowance    |-> update_allowance_applied(al, month),
          goals        |-> allocate_to_goals(gs, al.amount),
          applied      |-> TRUE]
    ELSE [transactions |-> txs, allowance |-> al, goals |-> gs, applied |-> FALSE]

\* What the world answers to one send_email_report call: with complete
\* settings the chart, the summary and the SMTP exchange succeed ("sent") or
\* raise ("error"); with incomplete settings the user may open the settings
\* dialog and save (save = TRUE, s the saved values).
SettingsInputs == [configured : BOOLEAN, auto_email : BOOLEAN]
NoSave == [configured |-> FALSE, auto_email |-> FALSE]
ReportEnvs ==
    [outcome : {"sent", "error"}, save : {FALSE}, s : {NoSave}]
    \cup [outcome : {"error"}, save : {TRUE}, s : SettingsInputs]

\* mutant: the stamp is written before the exchange, whatever its outcome
send_email_report_stamp_first(st, month, update_last_sent, env) ==
    IF ~st.configured
    THEN IF env.save THEN save_settings(st, env.s) ELSE st
    ELSE IF update_last_sent THEN update_email_sent(st, month) ELSE st

\* mutant: update_last_sent is ignored, every sent report stamps the month
send_email_report_always_stamps(st, month, update_last_sent, env) ==
    IF ~st.configured
    THEN IF env.save THEN save_settings(st, env.s) ELSE st
    ELSE IF env.outcome = "sent"
         THEN update_email_sent(st, month)
         ELSE st

\* the settings row after send_email_report
send_email_report(st, month, update_last_sent, env) ==
    IF ~st.configured
    THEN IF env.save THEN save_settings(st, env.s) ELSE st
    ELSE IF env.outcome = "sent" /\ update_last_sent
         THEN update_email_sent(st, month)
         ELSE st

\* what send_email_report reads for the message body: the month's summary
\* and the current balance
ReportContent(txs, month) ==
    [income  |-> get_monthly_summary(txs, month).income,
     expense |-> get_monthly_summary(txs, month).expense,
     balance |-> get_balance(txs)]

NoReport == [income |-> 0, expense |-> 0, balance |-> 0]

\* the value send_email_report returns
ReportSent(st, env) == st.configured /\ env.outcome = "sent"

\* if last_sent != current_month (under settings.get('auto_email'))
\* mutant: the automatic report ignores the last-sent stamp
ReportDue_unstamped(st, month) == st.auto_email

ReportDue(st, month) == st.auto_email /\ get_last_email_sent(st) # month

auto_send_monthly_report(st, month, env) ==
    IF ReportDue(st, month) THEN send_email_report(st, month, TRUE, env) ELSE st

\* mutant: the report is sent before the allowance is applied
StartupReport_before_allowance(txs, gs, al, month) == ReportContent(txs, month)

\* __init__: what the automatic report reads, apply_monthly_allowance having
\* run before auto_send_monthly_report
StartupReport(txs, gs, al, month) ==
    ReportContent(apply_monthly_allowance(txs, gs, al, month).transactions, month)

\* mutant: the name is stored as typed
get_goal_unstripped(req) ==
    IF Strip(req.name) = << >>
    THEN [none |-> TRUE, name |-> << >>, target |-> req.target, saved |-> 0,
          allocation |-> req.allocation, deadline |-> FormatDate(req.deadline)]
    ELSE [none |-> FALSE, name |-> req.name, target |-> req.target,
          saved |-> 0, allocation |-> req.allocation,
          deadline |-> FormatDate(req.deadline)]

\* AddGoalDialog.get_goal: None for a blank name, else the goal entered
get_goal(req) ==
    IF Strip(req.name) = << >>
    THEN [none |-> TRUE, name |-> << >>, target |-> req.target, saved |-> 0,
          allocation |-> req.allocation, deadline |-> FormatDate(req.deadline)]
    ELSE [none |-> FALSE, name |-> Strip(req.name), target |-> req.target,
          saved |-> 0, allocation |-> req.allocation,
          deadline |-> FormatDate(req.deadline)]

\* mutant: only the new goal's percentage is checked
OverAllocated_new_only(gs, goal) == goal.allocation > MaxAllocation

\* total_allocation > 100
OverAllocated(gs, goal) == SumAllocation(gs) + goal.allocation > MaxAllocation

\* mutant: the initial amount is not compared with the balance
FundsGoal_unchecked(txs, req) == req.fund_now /\ req.initial_amount > 0

\* fund_now and initial_amount and initial_amount > 0, and not more than the balance
FundsGoal(txs, req) ==
    /\ req.fund_now
    /\ req.initial_amount > 0
    /\ ~(req.initial_amount > get_balance(txs))

\* mutant: the initial amount is compared with the balance before the goal
\* is inserted
handle_add_goal_balance_first(gs, txs, id, req) ==
    LET goal == get_goal(req)
    IN  IF goal.none
        THEN [goals |-> gs, outcome |-> "ignored"]
        ELSE IF OverAllocated(gs, goal)
        THEN [goals |-> gs, outcome |-> "rejected"]
        ELSE IF FundsGoal(txs, req)
        THEN [goals   |-> update_goal_saved(add_goal(gs, goal, id), id,
                                            req.initial_amount * Scale),
              outcome |-> "created"]
        ELSE IF req.fund_now /\ req.initial_amount > 0
        THEN [goals |-> gs, outcome |-> "rejected"]
        ELSE [goals |-> add_goal(gs, goal, id), outcome |-> "created"]

\* mutant: the goal is inserted before the allocation is validated
handle_add_goal_insert_first(gs, txs, id, req) ==
    LET goal == get_goal(req)
    IN  IF goal.none
        THEN [goals |-> gs, outcome |-> "ignored"]
        ELSE IF OverAllocated(gs, goal)
        THEN [goals |-> add_goal(gs, goal, id), outcome |-> "rejected"]
        ELSE IF FundsGoal(txs, req)
        THEN [goals   |-> update_goal_saved(add_goal(gs, goal, id), id,
                                            req.initial_amount * Scale),
              outcome |-> "created"]
        ELSE [goals |-> add_goal(gs, goal, id), outcome |-> "created"]

\* handle_add_goal on an accepted dialog: the goal store afterwards and what
\* the handler did
handle_add_goal(gs, txs, id, req) ==
    LET goal == get_goal(req)
    IN  IF goal.none
        THEN [goals |-> gs, outcome |-> "ignored"]
        ELSE IF OverAllocated(gs, goal)
        THEN [goals |-> gs, outcome |-> "rejected"]
        ELSE IF FundsGoal(txs, req)
        THEN [goals   |-> update_goal_saved(add_goal(gs, goal, id), id,
                                            req.initial_amount * Scale),
              outcome |-> "created"]
        ELSE [goals |-> add_goal(gs, goal, id), outcome |-> "created"]

\* ------------------------------------------------------------- history
NoReq ==
    [name |-> << >>, target |-> 0, allocation |-> 0,
     deadline |-> [year |-> 0, month |-> 0, day |-> 0],
     fund_now |-> FALSE, initial_amount |-> 0]

\* the record of an operation that showed nothing and took no input
Quiet(op) ==
    [op |-> op, amount |-> 0, req |-> NoReq, outcome |-> "",
     messages |-> {}, applied |-> FALSE, attempts |-> 0, sent |-> FALSE,
     report |-> NoReport, again |-> FALSE]

\* obs after one allocation pass of `income` over the goals gs that showed
\* the completion messages msgs
Observe(gs, credit, msgs) ==
    [obs EXCEPT
        !.credited = [id \in DOMAIN @ |->
                        IF id \in GoalIds(gs) THEN @[id] + credit ELSE @[id]],
        !.messages = [id \in DOMAIN @ |->
                        IF id \in msgs THEN @[id] + 1 ELSE @[id]]]

\* ---------------------------------------------------------------- state
Init ==
    /\ transactions = << >>
    /\ goals = << >>
    /\ nextGoalId = 1
    /\ allowance = NoAllowanceRow
    /\ settings = [configured |-> FALSE, auto_email |-> FALSE,
                   last_email_sent |-> NoMonth]
    /\ now = 1
    /\ steps = 0
    /\ hist = Quiet("install")
    /\ obs = [passes   |-> [m \in Months |-> 0],
              messages |-> [id \in Ids |-> 0],
              credited |-> [id \in Ids |-> 0],
              funded   |-> [id \in Ids |-> 0],
              manual   |-> {}]

\* -------------------------------------------------------------- actions
\* one more operation is performed
Count == steps < MaxSteps /\ steps' = steps + 1

\* MoneyTrackerApp.__init__: the application starts
\* mutant: a start whose report fails undoes its allowance step
Startup_rollback ==
    \E env \in ReportEnvs :
        LET a   == apply_monthly_allowance(transactions, goals, allowance, now)
            due == ReportDue(settings, now)
            failed == due /\ ~ReportSent(settings, env)
        IN  /\ Count
            /\ transactions' = IF failed THEN transactions ELSE a.transactions
            /\ allowance' = IF failed THEN allowance ELSE a.allowance
            /\ goals' = IF failed THEN goals ELSE check_goal_notifications(a.goals)
            /\ settings' = auto_send_monthly_report(settings, now, env)
            /\ hist' = [Quiet("start") EXCEPT
                            !.amount = IF a.applied THEN allowance.amount ELSE 0,
                            !.applied = a.applied,
                            !.messages = Messages(a.goals),
                            !.attempts = IF due THEN 1 ELSE 0,
                            !.sent = due /\ ReportSent(settings, env),
                            !.again = (hist.op = "start")]
            /\ obs' = [Observe(goals, IF a.applied THEN allowance.amount ELSE 0,
                               Messages(a.goals))
                          EXCEPT !.passes[now] = IF a.applied THEN @ + 1 ELSE @]
            /\ UNCHANGED <<nextGoalId, now>>

StartupRun ==
    \E env \in ReportEnvs :
        LET a   == apply_monthly_allowance(transactions, goals, allowance, now)
            due == ReportDue(settings, now)
        IN  /\ transactions' = a.transactions
            /\ allowance' = a.allowance
            /\ goals' = check_goal_notifications(a.goals)
            /\ settings' = auto_send_monthly_report(settings, now, env)
            /\ hist' = [Quiet("start") EXCEPT
                            !.amount = IF a.applied THEN allowance.amount ELSE 0,
                            !.applied = a.applied,
                            !.messages = Messages(a.goals),
                            !.attempts = IF due THEN 1 ELSE 0,
                            !.sent = due /\ ReportSent(settings, env),
                            !.report = IF due /\ settings.configured
                                       THEN StartupReport(transactions, goals,
                                                          allowance, now)
                                       ELSE NoReport,
                            !.again = (hist.op = "start")]
            /\ obs' = [Observe(goals, IF a.applied THEN allowance.amount ELSE 0,
                               Messages(a.goals))
                          EXCEPT !.passes[now] = IF a.applied THEN @ + 1 ELSE @]
            /\ UNCHANGED <<nextGoalId, now>>

Startup == Count /\ StartupRun

\* handle_add_money with the dialog accepted
AddMoney ==
    \E amount \in Incomes :
        LET gs == allocate_to_goals(goals, amount)
        IN  /\ Count
            /\ transactions' = add_transaction(transactions, amount, "Income", now)
            /\ goals' = check_goal_notifications(gs)
            /\ hist' = [Quiet("add_money") EXCEPT !.amount = amount,
                                                 !.messages = Messages(gs)]
            /\ obs' = Observe(goals, amount, Messages(gs))
            /\ UNCHANGED <<nextGoalId, allowance, settings, now>>

\* mutant: the expense is run through allocate_to_goals like a deposit
SpendMoney_allocating ==
    \E amount \in Expenses :
        /\ Count
        /\ transactions' = add_transaction(transactions, -amount, "Expense", now)
        /\ goals' = allocate_to_goals(goals, -amount)
        /\ hist' = [Quiet("spend_money") EXCEPT !.amount = amount]
        /\ UNCHANGED <<nextGoalId, allowance, settings, now, obs>>

\* handle_spend_money with the dialog accepted
SpendMoney ==
    \E amount \in Expenses :
        /\ Count
        /\ transactions' = add_transaction(transactions, -amount, "Expense", now)
        /\ hist' = [Quiet("spend_money") EXCEPT !.amount = amount]
        /\ UNCHANGED <<goals, nextGoalId, allowance, settings, now, obs>>

\* what the user enters in AddGoalDialog; the initial amount keeps its value
\* when "fund now" is unticked again
GoalRequests ==
    {r \in [name : NameInputs, target : Targets, allocation : Allocations,
            deadline : Deadlines, fund_now : BOOLEAN,
            initial_amount : InitialAmounts] :
        r.fund_now \/ r.initial_amount = 2}

\* handle_add_goal with the dialog accepted
AddGoal ==
    \E req \in GoalRequests :
        LET r == handle_add_goal(goals, transactions, nextGoalId, req)
            created == r.outcome = "created"
        IN  /\ Count
            /\ goals' = r.goals
            /\ nextGoalId' = IF created THEN nextGoalId + 1 ELSE nextGoalId
            /\ hist' = [Quiet("add_goal") EXCEPT !.req = req, !.outcome = r.outcome]
            /\ obs' = IF created /\ FundsGoal(transactions, req)
                      THEN [obs EXCEPT !.funded[nextGoalId] = req.initial_amount]
                      ELSE obs
            /\ UNCHANGED <<transactions, allowance, settings, now>>

\* handle_delete_goal answered Yes
DeleteGoal ==
    \E id \in GoalIds(goals) :
        /\ Count
        /\ goals' = delete_goal(goals, id)
        /\ hist' = [Quiet("delete_goal") EXCEPT !.amount = id]
        /\ UNCHANGED <<transactions, nextGoalId, allowance, settings, now, obs>>

\* manual_send_report
ManualSendReport ==
    \E env \in ReportEnvs :
        /\ Count
        /\ settings' = send_email_report(settings, now, FALSE, env)
        /\ hist' = [Quiet("manual_send") EXCEPT
                        !.attempts = 1, !.sent = ReportSent(settings, env),
                        !.report = IF settings.configured
                                   THEN ReportContent(transactions, now)
                                   ELSE NoReport]
        /\ obs' = IF ReportSent(settings, env)
                  THEN [obs EXCEPT !.manual = @ \cup {now}]
                  ELSE obs
        /\ UNCHANGED <<transactions, goals, nextGoalId, allowance, now>>

\* open_report_settings with ReportsSettingsDialog.on_save
SaveReportSettings ==
    \E s \in SettingsInputs :
        /\ Count
        /\ settings' = save_settings(settings, s)
        /\ hist' = Quiet("save_settings")
        /\ UNCHANGED <<transactions, goals, nextGoalId, allowance, now, obs>>

\* DatabaseManager.set_allowance: the allowance is configured
SetAllowance ==
    \E amount \in AllowanceAmounts :
        /\ Count
        /\ allowance' = set_allowance(allowance, amount)
        /\ hist' = [Quiet("set_allowance") EXCEPT !.amount = amount]
        /\ UNCHANGED <<transactions, goals, nextGoalId, settings, now, obs>>

\* the calendar month ends
Tick ==
    /\ Count
    /\ now' = now + 1
    /\ hist' = Quiet("tick")
    /\ UNCHANGED <<transactions, goals, nextGoalId, allowance, settings, obs>>

Next ==
    \/ Startup
    \/ AddMoney
    \/ SpendMoney
    \/ AddGoal
    \/ DeleteGoal
    \/ ManualSendReport
    \/ SaveReportSettings
    \/ SetAllowance
    \/ Tick

Spec == Init /\ [][Next]_vars

\* ------------------------------------------------------------ liveness
\* The operations counted in a behaviour with later starts
LiveSteps == MaxSteps - 2

\* The application is started again once the LiveSteps operations are done:
\* the same __init__, not counted.
LaterStartup == steps = LiveSteps /\ StartupRun /\ UNCHANGED steps

Early == steps < LiveSteps

NextLive ==
    \/ Early /\ Startup
    \/ Early /\ AddMoney
    \/ Early /\ SpendMoney
    \/ Early /\ AddGoal
    \/ Early /\ DeleteGoal
    \/ Early /\ ManualSendReport
    \/ Early /\ SaveReportSettings
    \/ Early /\ SetAllowance
    \/ Early /\ Tick
    \/ LaterStartup

\* the user starts the application again and again
SpecLive ==
    /\ Init
    /\ [][NextLive]_vars
    /\ WF_vars(Early /\ Startup)
    /\ WF_vars(LaterStartup)

\* ------------------------------------------------------ legacy database
\* Goal.progress_percentage: 0 for target <= 0, else the whole percent of
\* saved over target, at most 100
progress_percentage(g) ==
    IF g.target <= 0 THEN 0
    ELSE IF (g.saved * Percent) \div (g.target * Scale) > Percent THEN Percent
    ELSE (g.saved * Percent) \div (g.target * Scale)

\* what the legacy goals table holds of a goal: the columns the table lacks
\* are absent from `has`
LegacyRows ==
    [has : {{"id", "name", "saved", "allocation"},
            {"id", "name", "target", "saved", "allocation"}},
     target : Targets, saved : {0, 1 * Scale}, allocation : {30}]

\* _migrate_database: a row restored with the defaults of the missing columns
Migrated(row) ==
    [id |-> 1, name |-> <<"L">>,
     target |-> IF "target" \in row.has THEN row.target ELSE 0,
     saved |-> row.saved, allocation |-> row.allocation,
     deadline |-> "2027-06-01", notified |-> FALSE]

\* the database of an earlier version, holding one goal, after
\* _initialize_database has rebuilt the goals table
InitLegacy ==
    /\ transactions = << >>
    /\ \E row \in LegacyRows : goals = << Migrated(row) >>
    /\ nextGoalId = 2
    /\ allowance = NoAllowanceRow
    /\ settings = [configured |-> FALSE, auto_email |-> FALSE,
                   last_email_sent |-> NoMonth]
    /\ now = 1
    /\ steps = 0
    /\ hist = Quiet("install")
    /\ obs = [passes   |-> [m \in Months |-> 0],
              messages |-> [id \in Ids |-> 0],
              credited |-> [id \in Ids |-> 0],
              funded   |-> [id \in Ids |-> 0],
              manual   |-> {}]

SpecLegacy == InitLegacy /\ [][Next]_vars

\* ------------------------------------------------------ storage failures
\* Every DatabaseManager method runs in a connection of its own
\* (get_connection): it commits when it returns and rolls back its own
\* statement when it raises.  A handler whose n-th call raises therefore
\* keeps what its first n-1 calls committed; the exception leaves the handler.

\* the goals after allocate_to_goals has committed its first n updates
PartialAllocation(gs, income, n) == AllocateLoop(SubSeq(gs, 1, n), gs, income)

\* handle_add_money: add_transaction committed, then the storage fails in
\* the (n+1)-th update_goal_saved of allocate_to_goals
AddMoneyFails ==
    \E amount \in Incomes, n \in 0..(Len(goals) - 1) :
        /\ Count
        /\ transactions' = add_transaction(transactions, amount, "Income", now)
        /\ goals' = PartialAllocation(goals, amount, n)
        /\ hist' = [Quiet("failed") EXCEPT !.outcome = "add_money",
                                          !.amount = amount]
        /\ obs' = Observe(SubSeq(goals, 1, n), amount, {})
        /\ UNCHANGED <<nextGoalId, allowance, settings, now>>

\* apply_monthly_allowance at a start: add_transaction committed, then the
\* storage fails in update_allowance_applied (stamped = FALSE) or in the
\* (n+1)-th update_goal_saved of allocate_to_goals (stamped = TRUE); the
\* exception leaves __init__
StartupFails ==
    \E stamped \in BOOLEAN, n \in 0..(Len(goals) - 1) :
        /\ Count
        /\ AllowanceDue(allowance, now)
        /\ stamped \/ n = 0
        /\ transactions' = add_transaction(transactions, allowance.amount,
                                           "Monthly Allowance", now)
        /\ allowance' = IF stamped THEN update_allowance_applied(allowance, now)
                        ELSE allowance
        /\ goals' = PartialAllocation(goals, allowance.amount, n)
        /\ hist' = [Quiet("failed") EXCEPT !.outcome = "start",
                                          !.amount = allowance.amount]
        /\ obs' = [Observe(SubSeq(goals, 1, n), allowance.amount, {})
                      EXCEPT !.passes[now] = IF n > 0 THEN @ + 1 ELSE @]
        /\ UNCHANGED <<nextGoalId, settings, now>>

\* handle_add_goal with initial funding: add_goal committed, then the storage
\* fails in get_balance or update_goal_saved
AddGoalFails ==
    \E req \in GoalRequests :
        LET goal == get_goal(req)
        IN  /\ Count
            /\ ~goal.none
            /\ ~OverAllocated(goals, goal)
            /\ FundsGoal(transactions, req)
            /\ goals' = add_goal(goals, goal, nextGoalId)
            /\ nextGoalId' = nextGoalId + 1
            /\ hist' = [Quiet("failed") EXCEPT !.outcome = "add_goal",
                                              !.req = req]
            /\ UNCHANGED <<transactions, allowance, settings, now, obs>>

NextFaulty ==
    \/ Next
    \/ AddMoneyFails
    \/ StartupFails
    \/ AddGoalFails

SpecFaulty == Init /\ [][NextFaulty]_vars

\* =============================================================== claims
Live == {goals[i] : i \in 1..Len(goals)}

Reached(g) == g.saved >= g.target * Scale

\* the "Monthly Allowance" transactions dated month m
AllowancePosts(m) ==
    {i \in 1..Len(transactions) :
        transactions[i].note = "Monthly Allowance" /\ transactions[i].month = m}

\* C1: for every month-stamp at most one "Monthly Allowance" transaction is
\* posted and at most one allowance allocation pass is run, whatever the
\* operations performed (starts, deposits, withdrawals, goal creation and
\* deletion, set_allowance, report sends).
C1_AllowanceOncePerMonth ==
    \A m \in Months :
        Cardinality(AllowancePosts(m)) <= 1 /\ obs.passes[m] <= 1

\* C2: a start in month m with allowance amount > 0 and last_applied # m
\* appends exactly one "Monthly Allowance" transaction of that amount, grows
\* every goal's saved by amount * allocation / 100 and sets last_applied to
\* m; with amount 0 or unset, or last_applied = m, it posts nothing and
\* leaves the allowance row and every saved amount as they were.
C2_StartupAllowance ==
    [][hist'.op = "start" =>
        /\ Len(goals') = Len(goals)
        /\ IF allowance.present /\ allowance.amount > 0
              /\ allowance.last_applied # now
           THEN /\ transactions' = Append(transactions,
                       [amount |-> allowance.amount, month |-> now,
                        note |-> "Monthly Allowance"])
                /\ \A i \in 1..Len(goals) :
                       goals'[i].saved * Percent = goals[i].saved * Percent
                           + allowance.amount * goals[i].allocation * Scale
                /\ allowance' = [allowance EXCEPT !.last_applied = now]
           ELSE /\ transactions' = transactions
                /\ allowance' = allowance
                /\ \A i \in 1..Len(goals) : goals'[i].saved = goals[i].saved
    ]_vars

C2_Witness ==
    /\ hist.op = "start"
    /\ hist.applied
    /\ allowance.last_applied = now
    /\ \E g \in Live : g.saved > 0

\* C3: a live goal's saved amount is its initial funding plus allocation/100
\* of the sum of the incomes posted since it was created: every income adds
\* exactly income * allocation / 100, whatever the other goals' percentages
\* and whatever the order of the incomes.
C3_AllocationExact ==
    \A g \in Live :
        g.saved * Percent =
            obs.funded[g.id] * Scale * Percent
            + obs.credited[g.id] * g.allocation * Scale

C3_Witness ==
    /\ hist.op = "add_money"
    /\ hist.amount = 1
    /\ Len(goals) = 2
    /\ SumAllocation(goals) < MaxAllocation
    /\ \A g \in Live : obs.credited[g.id] = 4 /\ g.saved = 120

\* C4: the allocation percentages of the live goals sum to at most 100.
C4_TotalAllocation == SumAllocation(goals) <= 100

C4_Witness ==
    /\ hist.op = "add_goal"
    /\ hist.outcome = "rejected"
    /\ Len(goals) = 2
    /\ SumAllocation(goals) = 100

\* C5: a goal-creation request whose percentage added to the live goals'
\* percentages exceeds 100 creates no goal and changes neither the goal
\* store, the ledger, the allowance row nor the report settings, also when
\* initial funding was requested.
C5_OverAllocationRejected ==
    [][(hist'.op = "add_goal"
        /\ SumAllocation(goals) + hist'.req.allocation > 100)
       => UNCHANGED <<goals, nextGoalId, transactions, allowance, settings>>
    ]_vars

C5_Witness ==
    /\ hist.op = "add_goal"
    /\ hist.outcome = "rejected"
    /\ hist.req.fund_now
    /\ hist.req.initial_amount > 0
    /\ hist.req.initial_amount <= get_balance(transactions)
    /\ SumAllocation(goals) + hist.req.allocation > 100

\* the "yyyy-MM-dd" text of the dates the dialog offers
IsoText(d) ==
    CASE d = [year |-> 2026, month |-> 6, day |-> 1] -> "2026-06-01"

Spaces(n) == [i \in 1..n |-> " "]

\* n is s without its leading and trailing blanks
IsStripOf(n, s) ==
    /\ n # << >>
    /\ Head(n) # " "
    /\ n[Len(n)] # " "
    /\ \E i, j \in 0..Len(s) : s = Spaces(i) \o n \o Spaces(j)

Blank(s) == \A i \in 1..Len(s) : s[i] = " "

\* this step appends exactly one goal, with the name `name` and the target,
\* allocation and deadline of req, not notified
AppendsGoal(req, name) ==
    /\ Len(goals') = Len(goals) + 1
    /\ SubSeq(goals', 1, Len(goals)) = goals
    /\ goals'[Len(goals')].name = name
    /\ goals'[Len(goals')].target = req.target
    /\ goals'[Len(goals')].allocation = req.allocation
    /\ goals'[Len(goals')].deadline = IsoText(req.deadline)
    /\ goals'[Len(goals')].notified = FALSE

\* C6 as stated: every confirmed goal-creation request whose percentage added
\* to the live goals' percentages is at most 100 adds exactly one goal with
\* the requested name, target, allocation and deadline and notified = false.
C6_ValidRequestCreates ==
    [][(hist'.op = "add_goal"
        /\ SumAllocation(goals) + hist'.req.allocation <= 100)
       => AppendsGoal(hist'.req, hist'.req.name)
    ]_vars

\* C6 as amended: such a request adds exactly one goal with the requested
\* target, allocation and deadline, notified = false and the requested name
\* without its surrounding blanks, provided the name is not blank; a request
\* with a blank name leaves the goal store as it is.
C6_NamedRequestCreates ==
    [][(hist'.op = "add_goal"
        /\ SumAllocation(goals) + hist'.req.allocation <= 100)
       => IF Blank(hist'.req.name)
          THEN UNCHANGED <<goals, nextGoalId>>
          ELSE /\ IsStripOf(goals'[Len(goals')].name, hist'.req.name)
               /\ AppendsGoal(hist'.req, goals'[Len(goals')].name)
    ]_vars

C6_Witness ==
    /\ hist.op = "add_goal"
    /\ hist.outcome = "created"
    /\ hist.req.name = <<" ", "L", " ">>
    /\ Len(goals) = 2
    /\ goals[2].name = <<"L">>
    /\ SumAllocation(goals) = 100

\* C7: a notified goal has saved >= target; a goal's notified flag, once
\* true, stays true as long as the goal exists, and turns true only in a
\* step after which saved >= target.
C7_NotifiedOnlyWhenReached ==
    /\ [](\A g \in Live : g.notified => Reached(g))
    /\ [][\A i \in 1..Len(goals), j \in 1..Len(goals') :
            goals[i].id = goals'[j].id =>
                /\ goals[i].notified => goals'[j].notified
                /\ (~goals[i].notified /\ goals'[j].notified)
                       => Reached(goals'[j])
         ]_vars

C7_Witness ==
    /\ hist.op = "add_money"
    /\ hist.messages = {}
    /\ \E g \in Live : g.notified /\ g.saved > g.target * Scale

\* C8: every goal is reported as completed at most once, a live goal is
\* notified exactly when it has been reported, the goals a pass reports are
\* notified when the pass ends, and a detection pass (deposit or start)
\* leaves no goal with saved >= target unnotified.
C8_ReportedExactlyOnce ==
    /\ \A id \in Ids : obs.messages[id] <= 1
    /\ \A g \in Live : g.notified <=> obs.messages[g.id] = 1
    /\ \A id \in hist.messages : \E g \in Live : g.id = id /\ g.notified
    /\ hist.op \in {"add_money", "start"} =>
           \A g \in Live : Reached(g) => g.notified

C8_Witness ==
    /\ hist.op = "start"
    /\ hist.messages = {}
    /\ \E g \in Live : g.notified /\ obs.messages[g.id] = 1 /\ obs.credited[g.id] > 0

\* C9: when an operation that can increase a saved amount has finished (a
\* deposit, a start, a goal creation with initial funding), no live goal has
\* saved >= target and notified = false.
C9_DetectionAfterEveryIncrease ==
    hist.op \in {"add_money", "start", "add_goal"} =>
        \A g \in Live : ~(Reached(g) /\ ~g.notified)

\* C10: a start with auto-report enabled and a last-sent stamp other than
\* the current month attempts the report once; a successful send sets the
\* stamp to the current month, a failed one leaves the stamp as it was; a
\* start with auto-report disabled or the stamp equal to the current month
\* attempts nothing and leaves the settings as they were.
C10_AutoReportStamp ==
    [][hist'.op = "start" =>
        IF settings.auto_email /\ settings.last_email_sent # now
        THEN /\ hist'.attempts = 1
             /\ hist'.sent => settings'.last_email_sent = now
             /\ ~hist'.sent =>
                    settings'.last_email_sent = settings.last_email_sent
        ELSE /\ hist'.attempts = 0
             /\ ~hist'.sent
             /\ settings' = settings
    ]_vars

C10_Witness ==
    /\ hist.op = "start"
    /\ hist.attempts = 1
    /\ ~hist.sent
    /\ settings.configured
    /\ settings.auto_email
    /\ settings.last_email_sent # now

\* the amounts of the "Monthly Allowance" transactions dated month m
RECURSIVE AllowanceTotal(_, _)
AllowanceTotal(txs, m) ==
    IF txs = << >> THEN 0
    ELSE (IF Head(txs).note = "Monthly Allowance" /\ Head(txs).month = m
          THEN Head(txs).amount ELSE 0) + AllowanceTotal(Tail(txs), m)

\* C11: the report a start generates is read from the ledger as the
\* allowance step of that start left it: its balance and its month summary
\* are those of the ledger after the start, so they include the allowance
\* the start posted, and last_applied is already the current month.
C11_ReportAfterAllowance ==
    [][(hist'.op = "start" /\ hist'.attempts = 1 /\ settings.configured) =>
        /\ hist'.report.balance = SumAmounts(transactions')
        /\ hist'.report.income = SumWhere(transactions', now, 1)
        /\ hist'.report.expense = SumWhere(transactions', now, -1)
        /\ hist'.applied =>
               /\ hist'.report.income >= AllowanceTotal(transactions', now)
               /\ hist'.report.balance = SumAmounts(transactions) + allowance.amount
               /\ allowance'.last_applied = now
    ]_vars

C11_Witness ==
    /\ hist.op = "start"
    /\ hist.applied
    /\ hist.sent
    /\ hist.report.income = 2
    /\ hist.report.balance = 2

\* a start that directly follows a start of the same month
Restart == hist.op = "start" /\ hist'.op = "start"

\* the allowance step of the step does nothing
AllowanceStepIdle ==
    /\ transactions' = transactions
    /\ allowance' = allowance
    /\ ~hist'.applied
    /\ \A i \in 1..Len(goals) : goals'[i].saved = goals[i].saved

\* the report step of the step does nothing
ReportStepIdle ==
    /\ hist'.attempts = 0
    /\ ~hist'.sent
    /\ settings'.last_email_sent = settings.last_email_sent

\* C12 (as stated): a start that follows a start of the same month posts no
\* transaction, runs no allocation, sends no report and changes neither
\* last_applied nor the last-sent stamp.
C12_RestartNoOp == [][Restart => AllowanceStepIdle /\ ReportStepIdle]_vars

\* C12 (amended): a start that follows a start of the same month posts no
\* transaction, runs no allocation and leaves last_applied unchanged; it
\* sends no report and leaves the last-sent stamp unchanged when the first
\* start sent its report or attempted none; after a failed attempt the second
\* start attempts the report again whenever the automatic report is still due
\* and stamps the month only if that report is sent.
C12_RestartNoOpAfterSent ==
    [][Restart =>
        /\ AllowanceStepIdle
        /\ (hist.attempts = 0 \/ hist.sent) => ReportStepIdle /\ settings' = settings
        /\ (hist.attempts = 1 /\ ~hist.sent) =>
               /\ hist'.attempts = (IF settings.auto_email THEN 1 ELSE 0)
               /\ settings'.last_email_sent =
                      (IF hist'.sent THEN now ELSE settings.last_email_sent)
    ]_vars

C12_Witness ==
    /\ hist.op = "start"
    /\ hist.again
    /\ ~hist.applied
    /\ hist.attempts = 0
    /\ allowance.last_applied = now
    /\ settings.last_email_sent = now
    /\ Cardinality(AllowancePosts(now)) = 1

\* C13: last_applied changes only in a step in which the allowance is
\* posted (a start that appends the "Monthly Allowance" transaction); every
\* other operation, set_allowance in particular, leaves it unchanged.
C13_LastAppliedOnlyWhenPosted ==
    [][allowance'.last_applied # allowance.last_applied =>
        /\ hist'.op = "start"
        /\ hist'.applied
        /\ Len(transactions') = Len(transactions) + 1
        /\ transactions'[Len(transactions')].note = "Monthly Allowance"
    ]_vars

\* C14: a deposit, an allowance application or a goal creation with initial
\* funding that fails in the storage leaves nothing behind: the ledger, the
\* goals and the allowance row are what they were before the operation.
C14_FailureRollsBack ==
    [][hist'.op = "failed" =>
        /\ transactions' = transactions
        /\ goals' = goals
        /\ allowance' = allowance
    ]_vars

\* a confirmed request with a name, within the 100 percent, that asks for an
\* initial funding
FundingRequested ==
    /\ hist'.op = "add_goal"
    /\ ~Blank(hist'.req.name)
    /\ SumAllocation(goals) + hist'.req.allocation <= 100
    /\ hist'.req.fund_now
    /\ hist'.req.initial_amount > 0

\* C15: a goal created with an initial funding a > 0 is created in both
\* cases; its saved amount is a when a is at most the balance, and 0 when a
\* exceeds the balance (the funding is dropped, the goal is kept).
C15_FundingValidated ==
    [][FundingRequested =>
        /\ Len(goals') = Len(goals) + 1
        /\ SubSeq(goals', 1, Len(goals)) = goals
        /\ goals'[Len(goals')].saved =
               (IF hist'.req.initial_amount > SumAmounts(transactions)
                THEN 0 ELSE hist'.req.initial_amount * Scale)
    ]_vars

\* a first goal funded with 1 out of a balance of 1, then a second goal whose
\* funding of 2 exceeds the balance
C15_Witness ==
    /\ hist.op = "add_goal"
    /\ hist.req.fund_now
    /\ hist.req.initial_amount = 2
    /\ SumAmounts(transactions) = 1
    /\ Len(goals) = 2
    /\ goals[1].saved = 1 * Scale
    /\ obs.funded[goals[1].id] = 1
    /\ goals[2].saved = 0

\* the request of this step exceeds the 100 percent
OverRequested ==
    hist'.op = "add_goal" /\ SumAllocation(goals) + hist'.req.allocation > 100

\* the request of this step asks for more initial funding than the balance
Underfunded ==
    /\ hist'.op = "add_goal"
    /\ hist'.req.fund_now
    /\ hist'.req.initial_amount > 0
    /\ hist'.req.initial_amount > SumAmounts(transactions)

AppendsTransaction ==
    /\ Len(transactions') = Len(transactions) + 1
    /\ SubSeq(transactions', 1, Len(transactions)) = transactions

\* C17: an expense appends exactly one transaction, of negative amount, and
\* changes no goal; a goal's saved amount changes only in a step that
\* appends a transaction of positive amount.
C17_ExpenseFrame ==
    /\ [][hist'.op = "spend_money" =>
            /\ AppendsTransaction
            /\ transactions'[Len(transactions')].amount = -hist'.amount
            /\ transactions'[Len(transactions')].amount < 0
            /\ goals' = goals
         ]_vars
    /\ [][(\E i \in 1..Len(goals), j \in 1..Len(goals') :
                goals'[j].id = goals[i].id /\ goals'[j].saved # goals[i].saved)
            => /\ AppendsTransaction
               /\ transactions'[Len(transactions')].amount > 0
         ]_vars

\* an expense with a goal that holds earmarked money
C17_Witness ==
    /\ hist.op = "spend_money"
    /\ transactions # << >>
    /\ transactions[Len(transactions)].amount = -1
    /\ \E i \in 1..Len(goals) : goals[i].saved > 0 /\ ~goals[i].notified

C19_LedgerAppendOnly ==
    /\ [](\A i \in 1..Len(transactions) : transactions[i].amount # 0)
    /\ []((hist.op \in {"start", "manual_send"} /\ hist.report # NoReport)
              => hist.report.balance = SumAmounts(transactions))
    /\ [][\/ transactions' = transactions
           \/ /\ AppendsTransaction
              /\ \/ hist'.op \in {"add_money", "spend_money"}
                 \/ hist'.op = "start" /\ hist'.applied
         ]_vars
    /\ [][hist'.op \in {"add_goal", "delete_goal", "manual_send",
                        "save_settings", "set_allowance", "tick"}
            => /\ transactions' = transactions
               /\ SumAmounts(transactions') = SumAmounts(transactions)
         ]_vars

\* a goal funded with 2 out of a deposit of 3: the ledger still holds the
\* deposit alone
C19_Witness ==
    /\ hist.op = "add_goal"
    /\ hist.req.initial_amount = 2
    /\ Len(goals) = 1
    /\ goals[1].saved = 2 * Scale
    /\ Len(transactions) = 1
    /\ SumAmounts(transactions) = 3

\* the allowance row asks for a posting in the current month
Posting ==
    allowance.present /\ allowance.amount > 0 /\ allowance.last_applied # now

\* C20: a report that fails changes nothing but what the operation did
\* before it.  A manual send that fails leaves the ledger, the goals, the
\* allowance row and the last-sent stamp as they were.  A start whose
\* automatic report fails keeps its allowance step: the "Monthly Allowance"
\* transaction is in the ledger, every goal is credited its share,
\* last_applied is the current month and the amount is unchanged; without a
\* posting the ledger, the saved amounts and the allowance row are as they
\* were.
C20_FailedReportFrame ==
    /\ [][(hist'.op = "manual_send" /\ ~hist'.sent) =>
            /\ UNCHANGED <<transactions, goals, allowance>>
            /\ settings'.last_email_sent = settings.last_email_sent
         ]_vars
    /\ [][(hist'.op = "start" /\ hist'.attempts = 1 /\ ~hist'.sent) =>
            /\ Len(goals') = Len(goals)
            /\ settings'.last_email_sent = settings.last_email_sent
            /\ IF Posting
               THEN /\ AppendsTransaction
                    /\ transactions'[Len(transactions')].amount = allowance.amount
                    /\ transactions'[Len(transactions')].note = "Monthly Allowance"
                    /\ allowance' = [allowance EXCEPT !.last_applied = now]
                    /\ \A i \in 1..Len(goals) :
                           goals'[i].saved =
                               goals[i].saved + allowance.amount * goals[i].allocation
               ELSE /\ transactions' = transactions
                    /\ allowance' = allowance
                    /\ \A i \in 1..Len(goals) : goals'[i].saved = goals[i].saved
         ]_vars

\* a start that posts the allowance, credits a goal and fails to send the
\* report with complete settings
C20_Witness ==
    /\ hist.op = "start"
    /\ hist.applied
    /\ hist.attempts = 1
    /\ ~hist.sent
    /\ settings.configured
    /\ settings.last_email_sent # now
    /\ allowance.last_applied = now
    /\ Cardinality(AllowancePosts(now)) = 1
    /\ \E g \in Live : g.saved = allowance.amount * g.allocation /\ g.saved > 0

\* C21: a goal whose target is not positive shows a progress of 0 percent
\* and is never reported as completed: no detection pass shows its message
\* or sets its notified flag, whatever it has saved.
C21_NonPositiveTargetNeverCompletes ==
    \A g \in Live :
        g.target <= 0 =>
            /\ progress_percentage(g) = 0
            /\ ~g.notified
            /\ obs.messages[g.id] = 0

\* C22: the last-sent stamp changes only in a start whose automatic report
\* is sent, and becomes the current month; a manual send, sent or not, and a
\* save of the report settings leave it as it was.  So a start in a month in
\* which a report was sent by hand, with auto-report enabled and the stamp
\* not yet that month, attempts the report once more and stamps the month
\* when it is sent.
C22_StampOnlyByAutoSend ==
    /\ [][settings'.last_email_sent # settings.last_email_sent =>
            /\ hist'.op = "start"
            /\ hist'.sent
            /\ settings'.last_email_sent = now
         ]_vars
    /\ [][hist'.op \in {"manual_send", "save_settings"} =>
            settings'.last_email_sent = settings.last_email_sent
         ]_vars
    /\ [][(hist'.op = "start" /\ now \in obs.manual /\ settings.auto_email
                /\ settings.last_email_sent # now)
            => /\ hist'.attempts = 1
               /\ hist'.sent => settings'.last_email_sent = now
         ]_vars

\* a report sent by hand, then sent again by the next start of the month
C22_Witness ==
    /\ hist.op = "start"
    /\ hist.sent
    /\ now \in obs.manual
    /\ settings.last_email_sent = now

\* the goal id is live, has reached its target and is not notified
Pending(id) == \E g \in Live : g.id = id /\ Reached(g) /\ ~g.notified

Notified(id) == \E g \in Live : g.id = id /\ g.notified

\* C23: a goal that has reached its target and is not notified, by whatever
\* path (initial funding included), is notified later unless it is deleted,
\* the application being started again and again; and every deposit and
\* every start is a detection pass: it shows the message of each goal that is
\* then completed and not notified and leaves no such goal behind.
C23_EventuallyNotified ==
    /\ \A id \in Ids : Pending(id) ~> (Notified(id) \/ id \notin GoalIds(goals))
    /\ [][hist'.op \in {"add_money", "start"} =>
            /\ \A id \in Ids : Pending(id) => id \in hist'.messages
            /\ \A j \in 1..Len(goals') :
                   Reached(goals'[j]) =>
                       /\ goals'[j].notified
                       /\ goals'[j].id \in hist'.messages
                              \/ \E i \in 1..Len(goals) :
                                     /\ goals[i].id = goals'[j].id
                                     /\ goals[i].notified
         ]_vars

\* a goal completed by its initial funding, reported by a later start
C23_Witness ==
    /\ hist.op = "start"
    /\ \E g \in Live :
           /\ g.notified
           /\ g.id \in hist.messages
           /\ obs.credited[g.id] = 0
           /\ obs.funded[g.id] >= g.target

====
